---- MODULE Spec2Model ----
(***************************************************************************)
(* GIT.WRAITH: the incremental, concurrent documentation pipeline of       *)
(* src/main.py (compute_file_hash, compute_cache, bedrock_generate,        *)
(* process_file, process_repository) as a state machine.                   *)
(*                                                                         *)
(* Spec         the pipeline: runs of process_repository over a small      *)
(*              repository, separated by edits of the source tree.  The    *)
(*              coordinating thread and the tasks of the pool interleave   *)
(*              freely; a task is one step, and within it the source read, *)
(*              the two generation calls and the documentation write may   *)
(*              each fail.  The source tree is edited between runs only;   *)
(*              the process may be interrupted at any point of a run.      *)
(* SpecFair     Spec, with the threads of a started run kept running.      *)
(* SpecPool     the pool alone, loaded with more tasks than workers.       *)
(* SpecGen      one call of bedrock_generate against every sequence of     *)
(*              outcomes of the service.                                   *)
(* SpecGenFair  SpecGen, with the calling thread kept running.             *)
(* SpecDiagram  one call of generate_threat_model_diagram against every    *)
(*              text the generation client may return.                     *)
(***************************************************************************)
EXTENDS Integers, Sequences, FiniteSets, TLC

(***************************************************************************)
(* Bounds of the model.                                                    *)
(***************************************************************************)
\* runs of process_repository in one behaviour
MaxRuns == 2
\* edits of the source tree between runs in one behaviour
MaxEdits == 1
\* injected faults (I/O exceptions, empty generation results) in one behaviour
MaxFaults == 1

\* tasks submitted to the pool in SpecPool
NumTasks == 10
\* pieces (fences and stretches of text) in a text the service returns
MaxTextLen == 3

(***************************************************************************)
(* Program constants.                                                      *)
(***************************************************************************)
\* ThreadPoolExecutor(max_workers=8)
max_workers == 8
\* bedrock_generate: retries after the first attempt
max_retries == 10
\* bedrock_generate: initial_delay = 1.0 s, in milliseconds
initial_delay == 1000
backoff_factor == 2
\* bedrock_generate: jitter = 0.1, in thousandths
jitter == 100
\* compute_file_hash(max_size=10 MiB, sample_size=64 KiB), counted here in
\* units such that max_size = 2 and sample_size = 1: what the code depends on
\* is file_size <= max_size, file_size > sample_size and the two windows.
max_size == 2
sample_size == 1

(***************************************************************************)
(* The repository: three python files, two of them with the same basename. *)
(***************************************************************************)
\* os.walk(topdown=True): the files of the root, then those of d/
PathOrder == <<"a.py", "b.py", "d/a.py">>
Paths == {PathOrder[i] : i \in 1..Len(PathOrder)}

\* os.path.basename
basename(p) == IF p = "d/a.py" THEN "a.py" ELSE p

\* byte contents a regular file may have: one of at most max_size bytes and
\* three larger ones, two of which differ in an interior byte only
Contents == {<<0>>, <<0, 0, 0>>, <<0, 1, 0>>, <<0, 0, 0, 0>>}

Absent == [kind |-> "absent", content |-> <<>>]
\* a directory entry that is no regular file (a dangling symlink)
Special == [kind |-> "special", content |-> <<>>]
\* a directory entry that is no regular file and can be read (a character
\* device, such as a link to /dev/null): open and read succeed with no bytes
Device == [kind |-> "device", content |-> <<>>]
Regular(c) == [kind |-> "regular", content |-> c]
FileStates == {Absent, Special, Device} \cup {Regular(c) : c \in Contents}

(***************************************************************************)
(* Finite maps (python dicts).                                             *)
(***************************************************************************)
EmptyMap == <<>>
Put(f, k, v) == [x \in (DOMAIN f) \cup {k} |-> IF x = k THEN v ELSE f[x]]
Del(f, k) == [x \in (DOMAIN f) \ {k} |-> f[x]]
Has(f, k) == k \in DOMAIN f

\* the elements of a list
Range(s) == {s[i] : i \in 1..Len(s)}

VARIABLES
    \* --- the disk
    fs,             \* path -> file state of the source tree
    docs,           \* wraith.docs/files: basename -> text of <basename>.docs.md
    cacheFile,      \* wraith.docs/.wraith.cache.json
    summaryFile,    \* wraith.docs/summary.docs.md
    diagramFile,    \* wraith.docs/system-dataflow.md
    outRaised,      \* history: the writes of those two files that raised last
    \* --- process_repository
    pc,             \* position of the coordinating thread
    filtered_files, \* list of discovered paths
    changed_files,  \* list returned by compute_cache
    new_cache,      \* record returned by compute_cache
    cache,          \* the in-memory CacheRecord
    summaries,      \* list of (path, summary)
    doc_contents,   \* list of (path, doc)
    pbar,           \* tqdm progress counter
    \* --- the pool
    task,           \* path -> state of its future
    result,         \* path -> tuple returned by process_file
    \* --- history (not program state)
    runs,           \* runs started
    edits,          \* edits made
    faults,         \* faults injected
    startCache,     \* cacheFile as it was when the current run started
    startFs,        \* fs as it was when the current run started
    prevFs,         \* fs as it was when the previous run started
    prevFailed,     \* paths whose task failed in the previous run
    log,            \* path -> what its process_file did in the current run
    recorded,       \* path -> the content whose hash the cache file holds
    cacheOpens,     \* times the current run opened the cache file for writing
    \* --- one call of bedrock_generate
    g_pc,           \* position in bedrock_generate
    prompt_len,     \* len(prompt)
    max_tokens,     \* the token ceiling sent with the request
    attempt,        \* the loop variable
    invocations,    \* calls of bedrock.invoke_model made so far
    outcomes,       \* what each call of bedrock.invoke_model did, in order
    delay,          \* milliseconds of the last time.sleep
    waited,         \* history: milliseconds slept by the call so far
    ret,            \* the value returned
    \* --- one call of generate_threat_model_diagram
    d_pc,           \* position in generate_threat_model_diagram
    d_summaries,    \* the argument: the length of each "Path: .., summary: .."
    d_sample_size,  \* sample_size of the prompt-building loop
    serialized_summary, \* the sample last drawn by the loop
    prompt,         \* the prompt last built by the loop
    diagram,        \* the local variable diagram
    d_calls,        \* the prompts given to bedrock_generate, in order
    d_texts,        \* the texts bedrock_generate returned, in order
    d_warnings,     \* the accuracy warnings written, in order
    d_raised,       \* an exception reached the except clause
    d_ret,          \* the value returned
    \* --- one call of truncate_code
    t_pc,           \* position in truncate_code
    t_code,         \* the argument code, as its lines
    t_ret           \* the text returned, as its lines

vars == <<fs, docs, cacheFile, summaryFile, diagramFile, outRaised, pc,
          filtered_files, changed_files, new_cache, cache, summaries,
          doc_contents, pbar, task, result, runs, edits, faults, startCache,
          startFs, prevFs, prevFailed, log, recorded, cacheOpens, g_pc,
          prompt_len, max_tokens, attempt, invocations, outcomes, delay,
          waited, ret, d_pc, d_summaries, d_sample_size, serialized_summary,
          prompt, diagram, d_calls, d_texts, d_warnings, d_raised, d_ret,
          t_pc, t_code, t_ret>>

genVars == <<g_pc, prompt_len, max_tokens, attempt, invocations, outcomes,
             delay, waited, ret>>
diagVars == <<d_pc, d_summaries, d_sample_size, serialized_summary, prompt,
              diagram, d_calls, d_texts, d_warnings, d_raised, d_ret>>
\* the variables of the calls followed on their own
truncVars == <<t_pc, t_code, t_ret>>
callVars == <<genVars, diagVars, truncVars>>
diskVars == <<fs, docs, cacheFile>>
\* the two files written after the cache file
outVars == <<summaryFile, diagramFile, outRaised>>
runVars == <<pc, filtered_files, changed_files, new_cache, cache, summaries,
             doc_contents, pbar>>
poolVars == <<task, result>>
histVars == <<runs, edits, faults, startCache, startFs, prevFs, prevFailed, log,
             recorded, cacheOpens>>
pipelineVars == <<diskVars, outVars, runVars, poolVars, histVars>>

(***************************************************************************)
(* Texts.  The generation service is external: what it returns for a       *)
(* prompt is a text that names the prompt's payload, or nothing.           *)
(***************************************************************************)
\* the empty string
Empty == <<>>
\* the documentation the service writes for a piece of code
Doc(code) == <<"doc", code>>
\* the summary the service writes for a documentation text
Sum(doc) == <<"sum", doc>>
\* what process_file writes to the documentation file: heading, then doc
DocFileText(doc) == <<"# Python Code Documentation", doc>>
\* a documentation file opened for writing and not written
TruncatedFile == <<>>
\* os.path.join(repo_path, repo_file_path)
file_path(p) == <<"repo", p>>
\* python's None in a result tuple
None == <<"None">>

(***************************************************************************)
(* generate_threat_model_diagram: one call, against every text the         *)
(* generation client may return.                                           *)
(*                                                                         *)
(* A text is a sequence of pieces: the fence that opens a mermaid block,   *)
(* the bare fence, or a stretch of text without fence, of which only the   *)
(* required elements it contains matter.  The empty sequence is the empty  *)
(* string, which is what bedrock_generate returns when it fails.           *)
(***************************************************************************)
required_elements == {"flowchart TD", "classDef", "-->", "subgraph"}

\* the fence that opens a mermaid block, and the bare fence
Open == [t |-> "fence mermaid", m |-> {}]
Close == [t |-> "fence", m |-> {}]
Body(elements) == [t |-> "text", m |-> elements]
\* the template of lines 541-574, which holds the four required elements
Fallback == <<[t |-> "template", m |-> required_elements]>>

\* summary.docs.md and system-dataflow.md when no run has written them
NoSummaryFile == <<<<"no file", Empty>>>>
NoDiagramFile == <<[t |-> "no file", m |-> {}]>>
\* os.path.relpath(path, repo_path)
relpath(path) == path[2]
\* lines 810-813: the heading, then path and summary of each entry
SummaryText(sums) ==
    <<<<"# Repository Overview", Empty>>>>
        \o [i \in 1..Len(sums) |-> <<relpath(sums[i][1]), sums[i][2]>>]
\* What generate_threat_model_diagram(summaries) can return: the template,
\* or a text that passed the test of line 531.  Without summaries no prompt
\* can be built and only the template is left.
DiagramResults(sums) ==
    IF sums = <<>> THEN {Fallback}
    ELSE {Fallback, <<Body(required_elements)>>}

(***************************************************************************)
(* compute_file_hash.  The digest is taken to be injective on the bytes    *)
(* fed to the hasher, so a hash is modelled by those bytes.                *)
(***************************************************************************)
RECURSIVE StrBytes(_)
\* str(n).encode('utf-8'): the ASCII decimal digits of n
StrBytes(n) == IF n < 10 THEN <<48 + n>>
               ELSE StrBytes(n \div 10) \o <<48 + (n % 10)>>

\* compute_file_hash that leaves the file size out of the sampled digest
compute_file_hash_without_size(content) ==
    LET file_size == Len(content)
    IN  IF file_size <= max_size
        THEN content
        ELSE SubSeq(content, 1, sample_size)
             \o SubSeq(content, file_size - sample_size + 1, file_size)

compute_file_hash(content) ==
    LET file_size == Len(content)
        beginning == SubSeq(content, 1, sample_size)
        end_sample == SubSeq(content, file_size - sample_size + 1, file_size)
    IN  IF file_size <= max_size
        THEN content
        ELSE beginning \o StrBytes(file_size)
             \o (IF file_size > sample_size THEN end_sample ELSE <<>>)

(***************************************************************************)
(* The cache file and compute_cache.                                       *)
(***************************************************************************)
EmptyCache == [hashes |-> EmptyMap, summaries |-> EmptyMap]
MissingFile == [kind |-> "missing", hashes |-> EmptyMap, summaries |-> EmptyMap]
\* json.dump(cache, f): both keys, every entry a string
JsonFile(c) == [kind |-> "json", hashes |-> c.hashes, summaries |-> c.summaries]
\* a cache file opened for writing whose JSON text is not, or not wholly,
\* written: json.load raises JSONDecodeError on it
PartialFile == [kind |-> "partial", hashes |-> EmptyMap, summaries |-> EmptyMap]

\* load_cache that starts every run from an empty record
load_cache_always_empty(file) == EmptyCache

\* json.load of the cache file, {'hashes': {}, 'summaries': {}} when the
\* file is missing or is not JSON
load_cache(file) ==
    IF file.kind = "json"
    THEN [hashes |-> file.hashes, summaries |-> file.summaries]
    ELSE EmptyCache

isfile(tree, p) == tree[p].kind = "regular"
\* open(file_path, 'r') followed by f.read() can succeed
readable(tree, p) == tree[p].kind \in {"regular", "device"}
\* os.path.join(files_dir, f"{os.path.basename(file_path)}.docs.md")
doc_path(p) == basename(p)

\* compute_cache that never compares with the stored hash
compute_cache_never_unchanged(tree, file_list, file) ==
    LET hashed == {p \in Range(file_list) : isfile(tree, p)}
    IN  [changed_files |-> SelectSeq(file_list, LAMBDA p : isfile(tree, p)),
         new_cache |-> [hashes |-> [p \in hashed |->
                                       compute_file_hash(tree[p].content)],
                        summaries |-> EmptyMap]]

\* compute_cache that hashes every path of the list
compute_cache_without_isfile(tree, file_list, file) ==
    LET stored_cache == load_cache(file)
        new_hash(p) == compute_file_hash(tree[p].content)
        changed(p) == \/ ~Has(stored_cache.hashes, p)
                      \/ stored_cache.hashes[p] # new_hash(p)
    IN  [changed_files |-> SelectSeq(file_list, changed),
         new_cache |-> [hashes |-> [p \in Range(file_list) |-> new_hash(p)],
                        summaries |-> EmptyMap]]

\* compute_cache returns (changed_files, new_cache)
compute_cache(tree, file_list, file) ==
    LET stored_cache == load_cache(file)
        full_run == DOMAIN stored_cache.hashes = {}
        hashed == {p \in Range(file_list) : isfile(tree, p)}
        new_hash(p) == compute_file_hash(tree[p].content)
        changed(p) == /\ isfile(tree, p)
                      /\ \/ full_run
                         \/ ~Has(stored_cache.hashes, p)
                         \/ stored_cache.hashes[p] # new_hash(p)
    IN  [changed_files |-> SelectSeq(file_list, changed),
         new_cache |-> [hashes |-> [p \in hashed |-> new_hash(p)],
                        summaries |-> EmptyMap]]

(***************************************************************************)
(* process_file.                                                           *)
(***************************************************************************)
\* the faults one execution of process_file may meet
\*   read     reading the source file raises
\*   gen      the documentation call returns the empty string
\*   write    "open": open(doc_path, 'w') raises and the file stays as it
\*            was; "write": f.write raises after the file was truncated
\*   sum      the summary call returns the empty string
\*   docread  reading the existing documentation file raises
\* and what it did: docAccess is "write" when it opened its documentation
\* file for writing, "read" when it opened it for reading
FaultChoices == [read : BOOLEAN, gen : BOOLEAN, write : {"no", "open", "write"},
                 sum : BOOLEAN, docread : BOOLEAN]
B2N(b) == IF b THEN 1 ELSE 0

NoLog == [ran |-> FALSE, readRaised |-> FALSE, docCalls |-> 0,
          docFailed |-> FALSE, writeRaised |-> FALSE, sumCalls |-> 0,
          reused |-> FALSE, docAccess |-> "none"]

Failed == [success |-> FALSE, repo_file_path |-> None, file_path |-> None,
           summary |-> None, doc |-> None]
Succeeded(p, summary, doc) ==
    [success |-> TRUE, repo_file_path |-> p, file_path |-> file_path(p),
     summary |-> summary, doc |-> doc]

\* The body of process_file for path p meeting the faults f: the tuple it
\* returns, the documentation directory it leaves, the faults that took
\* effect and what it did.
process_file(p, f) ==
    LET ran == [NoLog EXCEPT !.ran = TRUE]
    IN  IF ~readable(fs, p) \/ f.read
        THEN \* open(file_path, 'r') or f.read() raises
             [result |-> Failed, docs |-> docs,
              used |-> B2N(readable(fs, p) /\ f.read),
              log |-> [ran EXCEPT !.readRaised = TRUE]]
        ELSE
        LET original_code == fs[p].content
            \* the modelled files are far below the 8192-token budget
            truncated_code == original_code
        IN  IF p \in Range(changed_files)
            THEN LET doc == IF f.gen THEN Empty ELSE Doc(truncated_code)
                     summary == IF f.sum THEN Empty ELSE Sum(doc)
                 IN  IF f.write # "no"
                     THEN \* open(doc_path, 'w') or f.write raises
                          [result |-> Failed,
                           docs |-> IF f.write = "open" THEN docs
                                    ELSE Put(docs, doc_path(p), TruncatedFile),
                           used |-> B2N(f.gen) + 1,
                           log |-> [ran EXCEPT !.docCalls = 1,
                                               !.docFailed = f.gen,
                                               !.writeRaised = TRUE,
                                               !.docAccess = "write"]]
                     ELSE [result |-> Succeeded(p, summary, doc),
                           docs |-> Put(docs, doc_path(p), DocFileText(doc)),
                           used |-> B2N(f.gen) + B2N(f.sum),
                           log |-> [ran EXCEPT !.docCalls = 1,
                                               !.docFailed = f.gen,
                                               !.sumCalls = 1,
                                               !.docAccess = "write"]]
            ELSE IF Has(docs, doc_path(p))
                 THEN IF f.docread
                      THEN \* reading the documentation file raises
                           [result |-> Failed, docs |-> docs, used |-> 1,
                            log |-> [ran EXCEPT !.docAccess = "read"]]
                      ELSE IF Has(cache.summaries, p)
                           THEN [result |-> Succeeded(p, cache.summaries[p],
                                                      docs[doc_path(p)]),
                                 docs |-> docs, used |-> 0,
                                 log |-> [ran EXCEPT !.reused = TRUE,
                                                     !.docAccess = "read"]]
                           ELSE \* cache['summaries'][repo_file_path]: KeyError
                                [result |-> Failed, docs |-> docs, used |-> 0,
                                 log |-> [ran EXCEPT !.docAccess = "read"]]
                 ELSE [result |-> Succeeded(p, Empty, Empty), docs |-> docs,
                       used |-> 0, log |-> ran]

NumFaults(f) == B2N(f.read) + B2N(f.gen) + B2N(f.write # "no") + B2N(f.sum)
                + B2N(f.docread)

(***************************************************************************)
(* process_repository.                                                     *)
(***************************************************************************)
NoTasks == [p \in Paths |-> "none"]
NoResults == [p \in Paths |-> Failed]
NoLogs == [p \in Paths |-> NoLog]
\* the repository at first: three regular files, never processed, one of
\* them above the sampling threshold
FirstTree == [p \in Paths |-> IF p = "b.py" THEN Regular(<<0, 0, 0>>)
                                ELSE Regular(<<0>>)]

\* the state before the first run, with the cache file the run finds
InitPipelineFrom(file) ==
    /\ fs = FirstTree
    /\ docs = EmptyMap
    /\ cacheFile = file
    /\ summaryFile = NoSummaryFile
    /\ diagramFile = NoDiagramFile
    /\ outRaised = {}
    /\ pc = "idle"
    /\ filtered_files = <<>>
    /\ changed_files = <<>>
    /\ new_cache = EmptyCache
    /\ cache = EmptyCache
    /\ summaries = <<>>
    /\ doc_contents = <<>>
    /\ pbar = 0
    /\ task = NoTasks
    /\ result = NoResults
    /\ runs = 0
    /\ edits = 0
    /\ faults = 0
    /\ startCache = file
    /\ startFs = fs
    /\ prevFs = fs
    /\ prevFailed = {}
    /\ log = NoLogs
    /\ recorded = EmptyMap
    /\ cacheOpens = 0

\* the first run finds no cache file
InitPipeline == InitPipelineFrom(MissingFile)

\* no call of bedrock_generate is being followed
GenIdle ==
    /\ g_pc = "idle"
    /\ prompt_len = 0
    /\ max_tokens = 0
    /\ attempt = 0
    /\ invocations = 0
    /\ outcomes = <<>>
    /\ delay = 0
    /\ waited = 0
    /\ ret = "unset"

\* no call of generate_threat_model_diagram is being followed
NoPrompt == [fn |-> "none", sample |-> {}, graph |-> <<>>, len |-> 0]
NotDrawn == [drawn |-> FALSE, sample |-> {}]
DiagIdle ==
    /\ d_pc = "idle"
    /\ d_summaries = <<>>
    /\ d_sample_size = 0
    /\ serialized_summary = NotDrawn
    /\ prompt = NoPrompt
    /\ diagram = <<>>
    /\ d_calls = <<>>
    /\ d_texts = <<>>
    /\ d_warnings = <<>>
    /\ d_raised = FALSE
    /\ d_ret = <<>>

\* no call of truncate_code is being followed
TruncIdle ==
    /\ t_pc = "idle"
    /\ t_code = <<>>
    /\ t_ret = <<>>

Init == InitPipeline /\ GenIdle /\ DiagIdle /\ TruncIdle

\* the paths whose task of the current run returned success = False
FailedTasks == {p \in Paths : task[p] \in {"finished", "collected"}
                              /\ ~result[p].success}

\* Someone edits, replaces or removes a source file between two runs.
EditFile(p, st) ==
    /\ pc \in {"idle", "done"}
    /\ edits < MaxEdits
    /\ fs[p] # st
    /\ fs' = [fs EXCEPT ![p] = st]
    /\ edits' = edits + 1
    /\ UNCHANGED <<callVars, outVars, docs, cacheFile, runVars, poolVars,
                   runs, faults, startCache, startFs, prevFs, prevFailed, log,
                   recorded, cacheOpens>>

\* process_repository, lines 731-764: the walk of the source tree.
Walk ==
    /\ pc \in {"idle", "done"}
    /\ runs < MaxRuns
    /\ pc' = "walked"
    /\ filtered_files' = SelectSeq(PathOrder, LAMBDA p : fs[p].kind # "absent")
    /\ summaries' = <<>>
    /\ doc_contents' = <<>>
    /\ changed_files' = <<>>
    /\ new_cache' = EmptyCache
    /\ cache' = EmptyCache
    /\ pbar' = 0
    /\ task' = NoTasks
    /\ result' = NoResults
    /\ runs' = runs + 1
    /\ startCache' = cacheFile
    /\ startFs' = fs
    /\ prevFs' = startFs
    /\ prevFailed' = FailedTasks
    /\ log' = NoLogs
    /\ cacheOpens' = 0
    /\ UNCHANGED <<callVars, outVars, diskVars, edits, faults, recorded>>

\* compute_cache as its docstring has it: the new hashes are saved to the
\* JSON file
ComputeCache_saves_hashes ==
    /\ pc = "walked"
    /\ LET r == compute_cache(fs, filtered_files, cacheFile)
       IN  /\ changed_files' = r.changed_files
           /\ new_cache' = r.new_cache
           /\ cacheFile' = JsonFile(r.new_cache)
    /\ pc' = "hashed"
    /\ UNCHANGED <<callVars, outVars, fs, docs, filtered_files, cache,
                   summaries, doc_contents, pbar, poolVars, histVars>>

\* lines 766-767
ComputeCache ==
    /\ pc = "walked"
    /\ LET r == compute_cache(fs, filtered_files, cacheFile)
       IN  /\ changed_files' = r.changed_files
           /\ new_cache' = r.new_cache
    /\ pc' = "hashed"
    /\ UNCHANGED <<callVars, outVars, diskVars, filtered_files, cache,
                   summaries, doc_contents, pbar, poolVars, histVars>>

\* lines 769-782: the cache is loaded and one task per file is submitted
Dispatch ==
    /\ pc = "hashed"
    /\ cache' = load_cache(cacheFile)
    /\ task' = [p \in Paths |-> IF p \in Range(filtered_files) THEN "queued"
                                ELSE "none"]
    /\ pbar' = 0
    /\ pc' = "pool"
    /\ UNCHANGED <<callVars, outVars, diskVars, filtered_files, changed_files,
                   new_cache, summaries, doc_contents, result, histVars>>

Running == {p \in DOMAIN task : task[p] = "running"}

\* the positions at which the threads of the pool run: inside the `with`
\* block, and in its exit when an exception leaves the block (shutdown waits
\* for the tasks submitted)
PoolAlive == {"pool", "crashed"}

\* a pool that starts a queued task whatever the number of running tasks
StartTask_without_limit(p) ==
    /\ pc \in PoolAlive
    /\ task[p] = "queued"
    /\ task' = [task EXCEPT ![p] = "running"]
    /\ UNCHANGED <<callVars, outVars, diskVars, runVars, result, histVars>>

\* a worker thread of the pool takes a queued task
StartTask(p) ==
    /\ pc \in PoolAlive
    /\ task[p] = "queued"
    /\ Cardinality(Running) < max_workers
    /\ task' = [task EXCEPT ![p] = "running"]
    /\ UNCHANGED <<callVars, outVars, diskVars, runVars, result, histVars>>

\* a worker thread that stores its own result in the shared cache
ProcessFile_writes_cache(p) ==
    /\ pc \in PoolAlive
    /\ task[p] = "running"
    /\ \E f \in FaultChoices :
         LET out == process_file(p, f)
         IN  /\ out.used = NumFaults(f)
             /\ faults + out.used <= MaxFaults
             /\ faults' = faults + out.used
             /\ docs' = out.docs
             /\ result' = [result EXCEPT ![p] = out.result]
             /\ log' = [log EXCEPT ![p] = out.log]
             /\ cache' = IF out.result.success /\ out.result.summary # Empty
                         THEN [cache EXCEPT !.summaries =
                                  Put(cache.summaries, p, out.result.summary)]
                         ELSE cache
    /\ task' = [task EXCEPT ![p] = "finished"]
    /\ UNCHANGED <<callVars, outVars, fs, cacheFile, pc, filtered_files,
                   changed_files, new_cache, summaries, doc_contents, pbar,
                   runs, edits, startCache, startFs, prevFs, prevFailed,
                   recorded, cacheOpens>>

\* a worker thread runs process_file
ProcessFile(p) ==
    /\ pc \in PoolAlive
    /\ task[p] = "running"
    /\ \E f \in FaultChoices :
         LET out == process_file(p, f)
         IN  /\ out.used = NumFaults(f)
             /\ faults + out.used <= MaxFaults
             /\ faults' = faults + out.used
             /\ docs' = out.docs
             /\ result' = [result EXCEPT ![p] = out.result]
             /\ log' = [log EXCEPT ![p] = out.log]
    /\ task' = [task EXCEPT ![p] = "finished"]
    /\ UNCHANGED <<callVars, outVars, fs, cacheFile, runVars, runs, edits,
                   startCache, startFs, prevFs, prevFailed, recorded,
                   cacheOpens>>

\* merge that keeps only the summary of the result it is given
merge_resets_summaries(c, r) ==
    LET withHash == [c EXCEPT !.hashes = Put(c.hashes, r.repo_file_path,
                                   new_cache.hashes[r.repo_file_path])]
    IN  IF r.summary # Empty
        THEN [withHash EXCEPT !.summaries =
                  [q \in {r.repo_file_path} |-> r.summary]]
        ELSE withHash

\* merge that forgets to record the new hash
merge_without_hash(c, r) ==
    IF r.summary # Empty
    THEN [c EXCEPT !.summaries = Put(c.summaries, r.repo_file_path, r.summary)]
    ELSE c

\* merge that copies every new hash as soon as one result arrives
merge_every_hash(c, r) ==
    LET withHash == [c EXCEPT !.hashes =
                        [q \in DOMAIN c.hashes \cup DOMAIN new_cache.hashes |->
                            IF Has(new_cache.hashes, q) THEN new_cache.hashes[q]
                            ELSE c.hashes[q]]]
    IN  IF r.summary # Empty
        THEN [withHash EXCEPT !.summaries =
                  Put(c.summaries, r.repo_file_path, r.summary)]
        ELSE withHash

\* lines 783-796: the coordinator takes the next completed future
merge(c, r) ==
    LET withHash == [c EXCEPT !.hashes = Put(c.hashes, r.repo_file_path,
                                   new_cache.hashes[r.repo_file_path])]
    IN  IF r.summary # Empty
        THEN [withHash EXCEPT !.summaries =
                  Put(c.summaries, r.repo_file_path, r.summary)]
        ELSE withHash

\* the loop body with pbar.update(1) placed after the test of success
Collect_counts_successes(p) ==
    /\ pc = "pool"
    /\ task[p] = "finished"
    /\ task' = [task EXCEPT ![p] = "collected"]
    /\ LET r == result[p]
       IN  IF ~r.success
           THEN UNCHANGED <<cache, summaries, doc_contents, pc, pbar>>
           ELSE IF ~Has(new_cache.hashes, r.repo_file_path)
           THEN /\ pc' = "crashed"
                /\ pbar' = pbar + 1
                /\ doc_contents' = Append(doc_contents, <<r.file_path, r.doc>>)
                /\ UNCHANGED <<cache, summaries>>
           ELSE /\ doc_contents' = Append(doc_contents, <<r.file_path, r.doc>>)
                /\ pbar' = pbar + 1
                /\ cache' = merge(cache, r)
                /\ summaries' = IF r.summary # Empty
                                THEN Append(summaries, <<r.file_path, r.summary>>)
                                ELSE summaries
                /\ UNCHANGED pc
    /\ UNCHANGED <<callVars, outVars, diskVars, filtered_files, changed_files,
                   new_cache, result, histVars>>

\* a collection that lists the summaries of the changed files only
Collect_changed_only(p) ==
    /\ pc = "pool"
    /\ task[p] = "finished"
    /\ task' = [task EXCEPT ![p] = "collected"]
    /\ pbar' = pbar + 1
    /\ LET r == result[p]
       IN  IF ~r.success
           THEN UNCHANGED <<cache, summaries, doc_contents, pc>>
           ELSE IF ~Has(new_cache.hashes, r.repo_file_path)
           THEN /\ pc' = "crashed"
                /\ doc_contents' = Append(doc_contents, <<r.file_path, r.doc>>)
                /\ UNCHANGED <<cache, summaries>>
           ELSE /\ doc_contents' = Append(doc_contents, <<r.file_path, r.doc>>)
                /\ cache' = merge(cache, r)
                /\ summaries' = IF r.summary # Empty
                                   /\ p \in Range(changed_files)
                                THEN Append(summaries, <<r.file_path, r.summary>>)
                                ELSE summaries
                /\ UNCHANGED pc
    /\ UNCHANGED <<callVars, outVars, diskVars, filtered_files, changed_files,
                   new_cache, result, histVars>>

Collect(p) ==
    /\ pc = "pool"
    /\ task[p] = "finished"
    /\ task' = [task EXCEPT ![p] = "collected"]
    /\ pbar' = pbar + 1
    /\ LET r == result[p]
       IN  IF ~r.success
           THEN UNCHANGED <<cache, summaries, doc_contents, pc>>
           ELSE IF ~Has(new_cache.hashes, r.repo_file_path)
           THEN \* new_cache['hashes'][repo_file_path]: KeyError, the run dies
                /\ pc' = "crashed"
                /\ doc_contents' = Append(doc_contents, <<r.file_path, r.doc>>)
                /\ UNCHANGED <<cache, summaries>>
           ELSE /\ doc_contents' = Append(doc_contents, <<r.file_path, r.doc>>)
                /\ cache' = merge(cache, r)
                /\ summaries' = IF r.summary # Empty
                                THEN Append(summaries, <<r.file_path, r.summary>>)
                                ELSE summaries
                /\ UNCHANGED pc
    /\ UNCHANGED <<callVars, outVars, diskVars, filtered_files, changed_files,
                   new_cache, result, histVars>>

\* prune that deletes the stale hashes and keeps their summaries
prune_hashes_only(c) ==
    [hashes |-> [p \in DOMAIN c.hashes \cap DOMAIN new_cache.hashes |->
                    c.hashes[p]],
     summaries |-> c.summaries]

\* lines 798-802: stale keys are deleted
prune(c) ==
    LET keep == DOMAIN c.hashes \cap DOMAIN new_cache.hashes
        stale == DOMAIN c.hashes \ DOMAIN new_cache.hashes
    IN  [hashes |-> [p \in keep |-> c.hashes[p]],
         summaries |-> [p \in DOMAIN c.summaries \ stale |-> c.summaries[p]]]

\* Prune that does not wait for the pool to be drained
Prune_before_pool_drained ==
    /\ pc = "pool"
    /\ cache' = prune(cache)
    /\ pc' = "write"
    /\ UNCHANGED <<callVars, outVars, diskVars, filtered_files, changed_files,
                   new_cache, summaries, doc_contents, pbar, poolVars,
                   histVars>>

Prune ==
    /\ pc = "pool"
    /\ \A p \in Paths : task[p] \in {"none", "collected"}
    /\ cache' = prune(cache)
    /\ pc' = "write"
    /\ UNCHANGED <<callVars, outVars, diskVars, filtered_files, changed_files,
                   new_cache, summaries, doc_contents, pbar, poolVars,
                   histVars>>

\* line 804: open(cache_path, 'w') empties the cache file
OpenCache ==
    /\ pc = "write"
    /\ cacheFile' = PartialFile
    /\ cacheOpens' = cacheOpens + 1
    /\ pc' = "writing"
    /\ UNCHANGED <<callVars, outVars, fs, docs, filtered_files, changed_files,
                   new_cache, cache, summaries, doc_contents, pbar, poolVars,
                   runs, edits, faults, startCache, startFs, prevFs,
                   prevFailed, log, recorded>>

\* line 805: json.dump(cache, f, indent=4) and the close of the file
WriteCache ==
    /\ pc = "writing"
    /\ cacheFile' = JsonFile(cache)
    /\ pc' = "summary"
    /\ recorded' = [p \in DOMAIN cache.hashes |->
                        IF task[p] = "collected" /\ result[p].success
                        THEN startFs[p].content ELSE recorded[p]]
    /\ UNCHANGED <<callVars, outVars, fs, docs, filtered_files, changed_files,
                   new_cache, cache, summaries, doc_contents, pbar, poolVars,
                   runs, edits, faults, startCache, startFs, prevFs,
                   prevFailed, log, cacheOpens>>

\* what opening a file for writing and writing it can do: both succeed, the
\* open raises (the file stays as it was), or the write raises (the file
\* was truncated by the open)
WriteFaults == {"none", "open", "write"}
Written(old, text, f) ==
    IF f = "none" THEN text ELSE IF f = "open" THEN old ELSE TruncatedFile

\* lines 807-815: summary.docs.md is written; an exception is printed and
\* the run goes on
WriteSummary(f) ==
    /\ pc = "summary"
    /\ f # "none" => faults < MaxFaults
    /\ faults' = IF f = "none" THEN faults ELSE faults + 1
    /\ summaryFile' = Written(summaryFile, SummaryText(summaries), f)
    /\ outRaised' = IF f = "none" THEN {} ELSE {"summary"}
    /\ pc' = "diagram"
    /\ UNCHANGED <<callVars, diskVars, diagramFile, filtered_files,
                   changed_files, new_cache, cache, summaries, doc_contents,
                   pbar, poolVars, runs, edits, startCache, startFs, prevFs,
                   prevFailed, log, recorded, cacheOpens>>

\* lines 817-832: generate_threat_model_diagram returns d, which is written
\* to system-dataflow.md; an exception is printed; process_repository
\* returns doc_contents
WriteDiagram(d, f) ==
    /\ pc = "diagram"
    /\ f # "none" => faults < MaxFaults
    /\ faults' = IF f = "none" THEN faults ELSE faults + 1
    /\ diagramFile' = Written(diagramFile, d, f)
    /\ outRaised' = IF f = "none" THEN outRaised
                    ELSE outRaised \cup {"diagram"}
    /\ pc' = "done"
    /\ UNCHANGED <<callVars, diskVars, summaryFile, filtered_files,
                   changed_files, new_cache, cache, summaries, doc_contents,
                   pbar, poolVars, runs, edits, startCache, startFs, prevFs,
                   prevFailed, log, recorded, cacheOpens>>

\* the positions of a run that has started and not ended
InRun == {"walked", "hashed", "pool", "write", "writing", "summary",
          "diagram"}

\* The process is interrupted (killed, power lost) at any point of a run:
\* the threads stop where they are and the disk stays as it is.
Interrupt ==
    /\ pc \in InRun
    /\ pc' = "interrupted"
    /\ UNCHANGED <<callVars, outVars, diskVars, filtered_files, changed_files,
                   new_cache, cache, summaries, doc_contents, pbar, poolVars,
                   histVars>>

Next ==
    \/ \E p \in Paths, st \in FileStates : EditFile(p, st)
    \/ Walk
    \/ ComputeCache
    \/ Dispatch
    \/ \E p \in Paths : StartTask(p)
    \/ \E p \in Paths : ProcessFile(p)
    \/ \E p \in Paths : Collect(p)
    \/ Prune
    \/ OpenCache
    \/ WriteCache
    \/ \E f \in WriteFaults : WriteSummary(f)
    \/ \E d \in DiagramResults(summaries), f \in WriteFaults : WriteDiagram(d, f)
    \/ Interrupt

Spec == Init /\ [][Next]_vars

\* a step of a run that has started: the coordinating thread or a worker
RunStep ==
    \/ ComputeCache
    \/ Dispatch
    \/ \E p \in Paths : StartTask(p)
    \/ \E p \in Paths : ProcessFile(p)
    \/ \E p \in Paths : Collect(p)
    \/ Prune
    \/ OpenCache
    \/ WriteCache
    \/ \E f \in WriteFaults : WriteSummary(f)
    \/ \E d \in DiagramResults(summaries), f \in WriteFaults : WriteDiagram(d, f)

\* the threads of a run keep running, and every call they make returns
SpecFair == Spec /\ WF_vars(RunStep)

\* a summary written by an earlier version of the program
OldSummary == Sum(Doc(<<9>>))

\* The cache files that make a full run: no file, a text that is not JSON,
\* and a JSON object without hashes (no 'hashes' key or an empty one, which
\* lines 165-168 and 775-778 make the same), with or without summaries.
StartFiles ==
    {MissingFile, PartialFile, JsonFile(EmptyCache),
     JsonFile([hashes |-> EmptyMap, summaries |-> ("a.py" :> OldSummary)])}

InitAnyCache ==
    /\ \E file \in StartFiles : InitPipelineFrom(file)
    /\ GenIdle
    /\ DiagIdle
    /\ TruncIdle

SpecAnyCache == InitAnyCache /\ [][Next]_vars

(***************************************************************************)
(* The pool alone, loaded with more tasks than it has workers: every task  *)
(* is submitted before the first result is awaited (line 781), and a task  *)
(* is here only its start and its end.                                     *)
(***************************************************************************)
PoolTasks == 1..NumTasks

InitPool ==
    /\ fs = FirstTree
    /\ docs = EmptyMap
    /\ cacheFile = MissingFile
    /\ summaryFile = NoSummaryFile
    /\ diagramFile = NoDiagramFile
    /\ outRaised = {}
    /\ pc = "pool"
    /\ filtered_files = <<>>
    /\ changed_files = <<>>
    /\ new_cache = EmptyCache
    /\ cache = EmptyCache
    /\ summaries = <<>>
    /\ doc_contents = <<>>
    /\ pbar = 0
    /\ task = [t \in PoolTasks |-> "queued"]
    /\ result = NoResults
    /\ runs = 1
    /\ edits = 0
    /\ faults = 0
    /\ startCache = MissingFile
    /\ startFs = fs
    /\ prevFs = fs
    /\ prevFailed = {}
    /\ log = NoLogs
    /\ recorded = EmptyMap
    /\ cacheOpens = 0
    /\ GenIdle
    /\ DiagIdle
    /\ TruncIdle

\* process_file returns in a worker thread, whatever it did
PoolFinish(t) ==
    /\ pc \in PoolAlive
    /\ task[t] = "running"
    /\ task' = [task EXCEPT ![t] = "finished"]
    /\ UNCHANGED <<callVars, outVars, diskVars, runVars, result, histVars>>

NextPool ==
    \/ \E t \in PoolTasks : StartTask(t)
    \/ \E t \in PoolTasks : PoolFinish(t)

SpecPool == InitPool /\ [][NextPool]_vars

(***************************************************************************)
(* bedrock_generate: one call, against every behaviour of the service.     *)
(***************************************************************************)
\* what one call of bedrock.invoke_model can do:
\*   ok            a response of the expected shape
\*   malformed     a response that does not parse or lacks a field
\*   throttled     ClientError with code ThrottlingException
\*   client_error  ClientError with any other code
\*   exception     any other exception
Outcomes == {"ok", "malformed", "throttled", "client_error", "exception"}

\* lengths of the prompts followed (a prompt is never empty: every caller
\* wraps its payload in a fixed instruction text)
PromptLens == {4, 9, 24, 25}

RECURSIVE Pow(_, _)
Pow(b, n) == IF n = 0 THEN 1 ELSE b * Pow(b, n - 1)

RECURSIVE CeilPow2From(_, _)
CeilPow2From(k, n) == IF k * 3 >= n THEN k ELSE CeilPow2From(2 * k, n)
\* 2**math.ceil(math.log(len(prompt)/3, 2)) for len(prompt) >= 3
estimate_max_tokens(n) == CeilPow2From(1, n)

\* after_invoke with the bound of the retry test off by one
\* (attempt <= max_retries)
after_invoke_retry_past_limit(o, a) ==
    CASE o = "ok" -> [pc |-> "returned", ret |-> "text"]
      [] o = "throttled" ->
            IF a <= max_retries
            THEN [pc |-> "sleep", ret |-> "unset"]
            ELSE [pc |-> "returned", ret |-> ""]
      [] OTHER -> [pc |-> "returned", ret |-> ""]

\* after_invoke retrying on every ClientError, whatever its code
after_invoke_retry_any_client_error(o, a) ==
    CASE o = "ok" -> [pc |-> "returned", ret |-> "text"]
      [] o \in {"throttled", "client_error"} ->
            IF a < max_retries
            THEN [pc |-> "sleep", ret |-> "unset"]
            ELSE [pc |-> "returned", ret |-> ""]
      [] OTHER -> [pc |-> "returned", ret |-> ""]

\* after_invoke without the final `except Exception`
after_invoke_exception_escapes(o, a) ==
    CASE o = "ok" -> [pc |-> "returned", ret |-> "text"]
      [] o = "throttled" ->
            IF a < max_retries
            THEN [pc |-> "sleep", ret |-> "unset"]
            ELSE [pc |-> "returned", ret |-> ""]
      [] o = "exception" -> [pc |-> "raised", ret |-> "unset"]
      [] OTHER -> [pc |-> "returned", ret |-> ""]

\* What the body of the loop does with the outcome o of the call made on
\* attempt a: the next position and the value returned, if any.
\*   ok:           return data['content'][0]['text'].strip()
\*   malformed:    the inner handler; tqdm.write is given str(e) as its file
\*                 argument and raises, which the outer `except Exception`
\*                 turns into return ""
\*   throttled:    sleep and continue while a < max_retries, else return ""
\*   client_error: return ""
\*   exception:    return ""
after_invoke(o, a) ==
    CASE o = "ok" -> [pc |-> "returned", ret |-> "text"]
      [] o = "malformed" -> [pc |-> "returned", ret |-> ""]
      [] o = "throttled" ->
            IF a < max_retries
            THEN [pc |-> "sleep", ret |-> "unset"]
            ELSE [pc |-> "returned", ret |-> ""]
      [] o = "client_error" -> [pc |-> "returned", ret |-> ""]
      [] o = "exception" -> [pc |-> "returned", ret |-> ""]

\* a delay that does not grow with the attempt
Delays_without_backoff(a) ==
    {(initial_delay * j) \div 1000 : j \in {1000 - jitter, 1000, 1000 + jitter}}

\* delay = initial_delay * backoff_factor ** attempt * uniform(1 - jitter, 1 + jitter)
Delays(a) == {(initial_delay * Pow(backoff_factor, a) * j) \div 1000 :
                 j \in {1000 - jitter, 1000, 1000 + jitter}}

\* lines 195-218: the call and the estimate of max_tokens
GenCall(n) ==
    /\ g_pc = "idle"
    /\ prompt_len' = n
    /\ max_tokens' = estimate_max_tokens(n)
    /\ attempt' = 0
    /\ g_pc' = "invoke"
    /\ waited' = 0
    /\ UNCHANGED <<invocations, outcomes, delay, ret>>
    /\ UNCHANGED <<diagVars, truncVars, pipelineVars>>

\* lines 220-256: one call of the service and its handling
GenInvoke(o) ==
    /\ g_pc = "invoke"
    /\ invocations' = invocations + 1
    /\ outcomes' = Append(outcomes, o)
    /\ LET r == after_invoke(o, attempt)
       IN  /\ g_pc' = r.pc
           /\ ret' = r.ret
           /\ delay' \in (IF r.pc = "sleep" THEN Delays(attempt) ELSE {delay})
           /\ waited' = IF r.pc = "sleep" THEN waited + delay' ELSE waited
    /\ UNCHANGED <<prompt_len, max_tokens, attempt>>
    /\ UNCHANGED <<diagVars, truncVars, pipelineVars>>

\* time.sleep(delay) ends; `continue` takes the next value of range(max_retries + 1),
\* and a loop that runs out of values falls off the end of the function
GenRetry ==
    /\ g_pc = "sleep"
    /\ IF attempt + 1 <= max_retries
       THEN /\ attempt' = attempt + 1
            /\ g_pc' = "invoke"
            /\ ret' = ret
       ELSE /\ attempt' = attempt
            /\ g_pc' = "returned"
            /\ ret' = "None"
    /\ UNCHANGED <<prompt_len, max_tokens, invocations, outcomes, delay,
                   waited>>
    /\ UNCHANGED <<diagVars, truncVars, pipelineVars>>

NextGen ==
    \/ \E n \in PromptLens : GenCall(n)
    \/ \E o \in Outcomes : GenInvoke(o)
    \/ GenRetry

SpecGen == Init /\ [][NextGen]_vars

\* the call is made and the thread that makes it keeps running
SpecGenFair == SpecGen /\ WF_vars(NextGen)

(***************************************************************************)
(* generate_threat_model_diagram against every text the generation client *)
(* may return.                                                             *)
(***************************************************************************)
Pieces == {Open, Close, Body({}), Body(required_elements),
           Body(required_elements \ {"subgraph"}), Body({"subgraph"})}
RECURSIVE SeqsUpTo(_, _)
SeqsUpTo(S, n) ==
    IF n = 0 THEN {<<>>}
    ELSE LET shorter == SeqsUpTo(S, n - 1)
         IN  shorter \cup {Append(q, x) : q \in shorter, x \in S}
\* the texts the generation client may return
Texts == SeqsUpTo(Pieces, MaxTextLen)

IsFence(x) == x.t \in {"fence mermaid", "fence"}
\* str.find of the opening fence and str.rfind of the bare fence: the
\* opening fence begins with the bare fence
find_mermaid(text) ==
    CHOOSE i \in 1..Len(text) :
        text[i] = Open /\ \A j \in 1..(i - 1) : text[j] # Open
rfind_fence(text) ==
    CHOOSE i \in 1..Len(text) :
        IsFence(text[i]) /\ \A j \in (i + 1)..Len(text) : ~IsFence(text[j])

\* lines 513-515 and 526-528: the part between the first opening fence and
\* the last fence, without its fences
extract(text) ==
    IF \E i \in 1..Len(text) : text[i] = Open
    THEN LET cut == SubSeq(text, find_mermaid(text), rfind_fence(text) - 1)
         IN  SelectSeq(cut, LAMBDA x : ~IsFence(x))
    ELSE text

\* the elements found in a text
ElementsIn(text) == UNION {text[i].m : i \in 1..Len(text)}

\* a test that does not look for "subgraph"
valid_without_subgraph(d) ==
    \A x \in required_elements \ {"subgraph"} : x \in ElementsIn(d)

\* lines 518-519 and 531-532: all(x in diagram for x in required_elements)
valid(d) == \A x \in required_elements : x \in ElementsIn(d)

(***************************************************************************)
(* The prompts.  Lengths are scaled: the budget of 32,000 characters is 32 *)
(* here and the fixed text of a prompt 10 (12 for the refinement prompt);  *)
(* the separator ". " keeps its two characters.                            *)
(***************************************************************************)
claude_max_length == 32
MakeFixedLen == 10
RefineFixedLen == 12

RECURSIVE SumLen(_, _)
SumLen(lens, S) ==
    IF S = {} THEN 0
    ELSE LET i == CHOOSE x \in S : TRUE
         IN  lens[i] + SumLen(lens, S \ {i})

\* len(". ".join(sample))
SerializedLen(lens, S) ==
    IF S = {} THEN 0 ELSE SumLen(lens, S) + 2 * (Cardinality(S) - 1)

PieceLen(x) == IF x.t = "text" THEN 2 + Cardinality(x.m) ELSE 3
RECURSIVE TextLen(_)
TextLen(text) ==
    IF text = <<>> THEN 0 ELSE PieceLen(Head(text)) + TextLen(Tail(text))

\* the refinement prompt built without the draft
build_prompt_without_graph(fn, lens, S, graph) ==
    [fn |-> fn, sample |-> S, graph |-> <<>>,
     len |-> (IF fn = "make" THEN MakeFixedLen ELSE RefineFixedLen)
             + SerializedLen(lens, S)]

\* the f-string of make_threat_model_prompt (fn = "make", no graph) and of
\* refine_threat_model_prompt (fn = "refine"): the sample and the graph it
\* holds, and its length
build_prompt(fn, lens, S, graph) ==
    IF fn = "make"
    THEN [fn |-> fn, sample |-> S, graph |-> <<>>,
          len |-> MakeFixedLen + SerializedLen(lens, S)]
    ELSE [fn |-> fn, sample |-> S, graph |-> graph,
          len |-> RefineFixedLen + SerializedLen(lens, S) + TextLen(graph)]

\* the lists of summaries followed, each summary given by the length of its
\* "Path: .., summary: .." text
SummaryLists == {<<>>, <<5>>, <<5, 5>>, <<5, 12>>, <<5, 30>>, <<12, 12, 12>>,
                 <<30>>}

\* line 822 and lines 305-309: the call, and the start of the loop of
\* make_threat_model_prompt
DiagCall(sums) ==
    /\ d_pc = "idle"
    /\ d_summaries' = sums
    /\ d_sample_size' = Len(sums)
    /\ serialized_summary' = NotDrawn
    /\ prompt' = NoPrompt
    /\ d_pc' = "make"
    /\ UNCHANGED <<diagram, d_calls, d_texts, d_warnings, d_raised, d_ret>>
    /\ UNCHANGED <<genVars, truncVars, pipelineVars>>

\* a loop test that takes the empty sample for a sample:
\* while serialized_summary is None or len(prompt) > claude_max_length
LoopTest_accepts_empty_sample ==
    \/ ~serialized_summary.drawn
    \/ prompt.len > claude_max_length

\* a loop test that forgets the budget
LoopTest_ignores_budget ==
    \/ ~serialized_summary.drawn
    \/ serialized_summary.sample = {}

\* while not serialized_summary or len(prompt) > claude_max_length
LoopTest ==
    \/ ~serialized_summary.drawn
    \/ serialized_summary.sample = {}
    \/ prompt.len > claude_max_length

\* One pass of the loop of lines 311-396 (make) or 410-492 (refine).
\* random.sample raises ValueError for a negative sample size, which the
\* except clause of generate_threat_model_diagram turns into the template.
PromptLoop ==
    /\ d_pc \in {"make", "refine"}
    /\ LoopTest
    /\ IF d_sample_size < 0
       THEN /\ d_pc' = "returned"
            /\ d_raised' = TRUE
            /\ d_ret' = Fallback
            /\ UNCHANGED <<d_sample_size, serialized_summary, prompt>>
       ELSE /\ \E S \in SUBSET (1..Len(d_summaries)) :
                 /\ Cardinality(S) = d_sample_size
                 /\ serialized_summary' = [drawn |-> TRUE, sample |-> S]
                 /\ prompt' = build_prompt(d_pc, d_summaries, S, diagram)
            /\ d_sample_size' = d_sample_size - 1
            /\ UNCHANGED <<d_pc, d_raised, d_ret>>
    /\ UNCHANGED <<d_summaries, diagram, d_calls, d_texts, d_warnings>>
    /\ UNCHANGED <<genVars, truncVars, pipelineVars>>

\* round(x) of Python for the fraction n / d: to the nearest integer, a tie
\* to the even one
round(n, d) ==
    LET q == n \div d
        r == n % d
    IN  IF 2 * r < d THEN q
        ELSE IF 2 * r > d THEN q + 1
        ELSE IF q % 2 = 0 THEN q ELSE q + 1

\* lines 397-398: the warning, which states
\* round(100 / len(summaries) * sample_size) percent
warning(size, total) ==
    [used |-> size, total |-> total, percent |-> round(100 * size, total)]

\* the end of the loop with the warning decided before sample_size += 1
PromptDone_without_increment ==
    /\ d_pc \in {"make", "refine"}
    /\ ~LoopTest
    /\ d_sample_size' = d_sample_size + 1
    /\ d_warnings' = IF d_sample_size # Len(d_summaries)
                     THEN Append(d_warnings,
                                 warning(d_sample_size, Len(d_summaries)))
                     ELSE d_warnings
    /\ d_calls' = Append(d_calls, prompt)
    /\ d_pc' = IF d_pc = "make" THEN "draft" ELSE "refined"
    /\ UNCHANGED <<d_summaries, serialized_summary, prompt, diagram, d_texts,
                   d_raised, d_ret>>
    /\ UNCHANGED <<genVars, truncVars, pipelineVars>>

\* The loop ends: sample_size += 1, the warning when fewer summaries than
\* all are used, and the prompt goes to bedrock_generate (lines 511, 524).
PromptDone ==
    /\ d_pc \in {"make", "refine"}
    /\ ~LoopTest
    /\ d_sample_size' = d_sample_size + 1
    /\ d_warnings' = IF d_sample_size + 1 # Len(d_summaries)
                     THEN Append(d_warnings,
                                 warning(d_sample_size + 1, Len(d_summaries)))
                     ELSE d_warnings
    /\ d_calls' = Append(d_calls, prompt)
    /\ d_pc' = IF d_pc = "make" THEN "draft" ELSE "refined"
    /\ UNCHANGED <<d_summaries, serialized_summary, prompt, diagram, d_texts,
                   d_raised, d_ret>>
    /\ UNCHANGED <<genVars, truncVars, pipelineVars>>

\* after_generate that falls back on the draft when the refinement is invalid
after_generate_keeps_draft(at, text) ==
    LET d == extract(text)
    IN  IF ~valid(d)
        THEN IF at = "draft"
             THEN [pc |-> "returned", raised |-> TRUE, diagram |-> d,
                   ret |-> Fallback]
             ELSE [pc |-> "returned", raised |-> TRUE, diagram |-> d,
                   ret |-> diagram]
        ELSE IF at = "draft"
        THEN [pc |-> "refine", raised |-> FALSE, diagram |-> d, ret |-> <<>>]
        ELSE [pc |-> "returned", raised |-> FALSE, diagram |-> d, ret |-> d]

\* What lines 511-535 do with the text returned for the draft prompt
\* (at = "draft") or for the refinement prompt (at = "refined"): the fences
\* are cut away; a text that lacks a required element raises ValueError and
\* the except clause returns the template; a valid draft goes on to
\* refine_threat_model_prompt and a valid refinement is returned.
after_generate(at, text) ==
    LET d == extract(text)
    IN  IF ~valid(d)
        THEN [pc |-> "returned", raised |-> TRUE, diagram |-> d,
              ret |-> Fallback]
        ELSE IF at = "draft"
        THEN [pc |-> "refine", raised |-> FALSE, diagram |-> d, ret |-> <<>>]
        ELSE [pc |-> "returned", raised |-> FALSE, diagram |-> d, ret |-> d]

\* bedrock_generate returns a text, the empty string when it failed
DiagGenerate(text) ==
    /\ d_pc \in {"draft", "refined"}
    /\ d_texts' = Append(d_texts, text)
    /\ LET r == after_generate(d_pc, text)
       IN  /\ d_pc' = r.pc
           /\ d_raised' = r.raised
           /\ diagram' = r.diagram
           /\ d_ret' = r.ret
           /\ IF r.pc = "refine"
              THEN \* lines 402-408: the start of the loop of
                   \* refine_threat_model_prompt
                   /\ d_sample_size' = Len(d_summaries)
                   /\ serialized_summary' = NotDrawn
                   /\ prompt' = NoPrompt
              ELSE UNCHANGED <<d_sample_size, serialized_summary, prompt>>
    /\ UNCHANGED <<d_summaries, d_calls, d_warnings>>
    /\ UNCHANGED <<genVars, truncVars, pipelineVars>>

NextDiagram ==
    \/ \E sums \in SummaryLists : DiagCall(sums)
    \/ PromptLoop
    \/ PromptDone
    \/ \E text \in Texts : DiagGenerate(text)

SpecDiagram == Init /\ [][NextDiagram]_vars

\* the loop of the prompt functions is straight-line code of one thread: a
\* pass that can be taken is taken
LoopStep == PromptLoop \/ PromptDone

SpecDiagramFair == SpecDiagram /\ WF_vars(LoopStep)

(***************************************************************************)
(* truncate_code (lines 585-630).  A text is the sequence of its lines,    *)
(* what code.split('\n') gives; a line is known by the number of its       *)
(* whitespace-delimited words and by whether section_regex matches it.  A  *)
(* line the regex matches holds the keyword, so it has at least one word.  *)
(* The budget of 8192 words is scaled to 4.                                *)
(***************************************************************************)
MaxLines == 4
MaxLineTokens == 3
max_tokens_of_truncate_code == 4

BlankLine == [header |-> FALSE, tokens |-> 0]
Lines ==
    {[header |-> h, tokens |-> n] :
        h \in BOOLEAN, n \in 0..MaxLineTokens}
        \ {[header |-> TRUE, tokens |-> 0]}

\* the texts given to truncate_code: at least one line, as split gives
Codes == UNION {[1..n -> Lines] : n \in 1..MaxLines}

\* '\n'.join(lines): no line at all gives the empty text, whose split is one
\* blank line
join(lines) == IF lines = <<>> THEN <<BlankLine>> ELSE lines

\* len(' '.join(sec).split()): the words of a list of lines
RECURSIVE tokens_of(_)
tokens_of(lines) ==
    IF lines = <<>> THEN 0
    ELSE Head(lines).tokens + tokens_of(Tail(lines))

\* lines 592-601: the lines grouped into sections, a new one at each line the
\* regex matches
RECURSIVE group_sections(_, _, _)
group_sections(lines, sections, current_section) ==
    IF lines = <<>>
    THEN IF current_section # <<>>
         THEN Append(sections, current_section)
         ELSE sections
    ELSE LET line == Head(lines)
         IN  IF line.header
             THEN group_sections(Tail(lines),
                      IF current_section # <<>>
                      THEN Append(sections, current_section)
                      ELSE sections,
                      <<line>>)
             ELSE group_sections(Tail(lines), sections,
                      Append(current_section, line))

\* sum(len(' '.join(sec).split()) for sec in sections)
RECURSIVE total_tokens(_)
total_tokens(sections) ==
    IF sections = <<>> THEN 0
    ELSE tokens_of(Head(sections)) + total_tokens(Tail(sections))

\* '\n'.join(['\n'.join(sec) for sec in sections]), before the final join
RECURSIVE flatten(_)
flatten(sections) ==
    IF sections = <<>> THEN <<>>
    ELSE Head(sections) \o flatten(Tail(sections))

\* a loop over the sections that keeps the first section whatever its size
RECURSIVE keep_sections_first_always(_, _, _)
keep_sections_first_always(sections, kept_sections, current_tokens) ==
    IF sections = <<>> THEN kept_sections
    ELSE LET sec_tokens == tokens_of(Head(sections))
         IN  IF kept_sections # <<>>
                /\ current_tokens + sec_tokens > max_tokens_of_truncate_code
             THEN kept_sections
             ELSE keep_sections_first_always(Tail(sections),
                      Append(kept_sections, Head(sections)),
                      current_tokens + sec_tokens)

\* lines 612-617: whole sections are kept until one does not fit
RECURSIVE keep_sections(_, _, _)
keep_sections(sections, kept_sections, current_tokens) ==
    IF sections = <<>> THEN kept_sections
    ELSE LET sec_tokens == tokens_of(Head(sections))
         IN  IF current_tokens + sec_tokens > max_tokens_of_truncate_code
             THEN kept_sections
             ELSE keep_sections(Tail(sections),
                      Append(kept_sections, Head(sections)),
                      current_tokens + sec_tokens)

\* a loop over the lines that skips a line that does not fit and goes on
RECURSIVE keep_lines_without_break(_, _, _)
keep_lines_without_break(lines, kept_sections, remaining) ==
    IF lines = <<>> THEN kept_sections
    ELSE LET line_tokens == Head(lines).tokens
         IN  IF remaining - line_tokens >= 0
             THEN keep_lines_without_break(Tail(lines),
                      Append(kept_sections, <<Head(lines)>>),
                      remaining - line_tokens)
             ELSE keep_lines_without_break(Tail(lines), kept_sections,
                      remaining)

\* lines 622-628: the leading lines of the section that did not fit, each
\* kept as a section of its own, until one does not fit
RECURSIVE keep_lines(_, _, _)
keep_lines(lines, kept_sections, remaining) ==
    IF lines = <<>> THEN kept_sections
    ELSE LET line_tokens == Head(lines).tokens
         IN  IF remaining - line_tokens >= 0
             THEN keep_lines(Tail(lines),
                      Append(kept_sections, <<Head(lines)>>),
                      remaining - line_tokens)
             ELSE kept_sections

\* truncate_code(code, section_regex); sections[len(kept_sections)] exists
\* past line 606, since some section did not fit
truncate_code(code) ==
    LET sections == group_sections(code, <<>>, <<>>)
    IN  IF total_tokens(sections) <= max_tokens_of_truncate_code
        THEN join(flatten(sections))
        ELSE LET kept_sections == keep_sections(sections, <<>>, 0)
                 current_tokens == total_tokens(kept_sections)
             IN  IF current_tokens < max_tokens_of_truncate_code
                 THEN join(flatten(keep_lines(
                          sections[Len(kept_sections) + 1], kept_sections,
                          max_tokens_of_truncate_code - current_tokens)))
                 ELSE join(flatten(kept_sections))

\* line 689: process_file calls truncate_code with the text it read
TruncCall(code) ==
    /\ t_pc = "idle"
    /\ t_code' = code
    /\ t_pc' = "called"
    /\ UNCHANGED t_ret
    /\ UNCHANGED <<genVars, diagVars, pipelineVars>>

\* the call returns
TruncReturn ==
    /\ t_pc = "called"
    /\ t_ret' = truncate_code(t_code)
    /\ t_pc' = "returned"
    /\ UNCHANGED t_code
    /\ UNCHANGED <<genVars, diagVars, pipelineVars>>

NextTruncate ==
    \/ \E code \in Codes : TruncCall(code)
    \/ TruncReturn

SpecTruncate == Init /\ [][NextTruncate]_vars

(***************************************************************************)
(* Claims about truncate_code.                                             *)
(***************************************************************************)
\* the words of the first n lines of the argument
Tok(n) == tokens_of(SubSeq(t_code, 1, n))

\* the number of lines kept: those of the text returned, none when the empty
\* text is returned for an argument that does not start with a blank line
KeptLines ==
    IF t_ret = <<BlankLine>> /\ t_code[1] # BlankLine THEN 0 ELSE Len(t_ret)

\* the last line of the section that holds line i
SectionEnd(i) ==
    IF \E j \in (i + 1)..Len(t_code) : t_code[j].header
    THEN (CHOOSE j \in (i + 1)..Len(t_code) :
              /\ t_code[j].header
              /\ \A k \in (i + 1)..(j - 1) : ~t_code[k].header) - 1
    ELSE Len(t_code)

\* C23: when the argument has at most max_tokens words, truncate_code
\* returns exactly the argument; otherwise the text returned has at most
\* max_tokens words (also when the first section alone is over the budget).
C23_TruncationBudget ==
    t_pc = "returned" =>
        /\ tokens_of(t_code) <= max_tokens_of_truncate_code => t_ret = t_code
        /\ tokens_of(t_code) > max_tokens_of_truncate_code =>
              \/ tokens_of(t_ret) <= max_tokens_of_truncate_code
              \/ Tok(SectionEnd(1)) > max_tokens_of_truncate_code
        /\ tokens_of(t_ret) <= max_tokens_of_truncate_code

\* a text over the budget whose first section fits is cut to the budget
C23_Witness ==
    /\ t_pc = "returned"
    /\ tokens_of(t_code) > max_tokens_of_truncate_code
    /\ Tok(SectionEnd(1)) <= max_tokens_of_truncate_code
    /\ tokens_of(t_ret) = max_tokens_of_truncate_code
    /\ t_ret # t_code

\* a text whose first section alone is over the budget
C23_WitnessFirstSection ==
    /\ t_pc = "returned"
    /\ Tok(SectionEnd(1)) > max_tokens_of_truncate_code
    /\ t_ret # <<BlankLine>>

\* C24: the text returned is the join of a prefix of the argument's lines.
\* When the argument is over the budget, the prefix holds every whole
\* section before the first section that does not fit, then the leading
\* lines of that section up to the first line that does not fit what is
\* left of the budget; nothing after that line is kept.
C24_TruncationPrefix ==
    t_pc = "returned" =>
        LET n == KeptLines
        IN  /\ n <= Len(t_code)
            /\ t_ret = join(SubSeq(t_code, 1, n))
            /\ tokens_of(t_code) <= max_tokens_of_truncate_code
                  => n = Len(t_code)
            /\ tokens_of(t_code) > max_tokens_of_truncate_code =>
                  /\ n < Len(t_code)
                  /\ Tok(n) <= max_tokens_of_truncate_code
                  /\ Tok(n + 1) > max_tokens_of_truncate_code
                  /\ Tok(SectionEnd(n + 1)) > max_tokens_of_truncate_code
                  /\ \A i \in 1..Len(t_code) :
                        Tok(SectionEnd(i)) <= max_tokens_of_truncate_code
                            => SectionEnd(i) <= n

\* a whole section, then a part of the section that does not fit
C24_Witness ==
    /\ t_pc = "returned"
    /\ Len(t_code) = 4
    /\ t_code[3].header
    /\ ~t_code[4].header
    /\ SectionEnd(1) = 2
    /\ Len(t_ret) = 3

(***************************************************************************)
(* Claims about generate_threat_model_diagram.                             *)
(***************************************************************************)
HasAllElements(text) == required_elements \subseteq ElementsIn(text)

\* C18: generate_threat_model_diagram returns the template, verbatim, when
\* every text the generation client returned lacks a required element, and
\* whenever a step raised; in particular when the draft was valid and the
\* refined text is not.
C18_DiagramFallback ==
    d_pc = "returned" =>
        /\ (\A i \in 1..Len(d_texts) : ~HasAllElements(d_texts[i]))
              => d_ret = Fallback
        /\ d_raised => d_ret = Fallback
        /\ (Len(d_texts) = 2 /\ ~HasAllElements(extract(d_texts[2])))
              => d_ret = Fallback

C18_Witness ==
    /\ d_pc = "returned"
    /\ Len(d_texts) = 2
    /\ HasAllElements(extract(d_texts[1]))
    /\ HasAllElements(d_texts[2])
    /\ ~HasAllElements(extract(d_texts[2]))
    /\ d_ret = Fallback

\* C19: whatever the summaries and whatever the generation client returns,
\* the text generate_threat_model_diagram returns holds the four required
\* elements: it is the refined text, cut out of its fences, which passed
\* the test, or it is the template.
C19_WellFormedOutput ==
    d_pc = "returned" =>
        /\ HasAllElements(d_ret)
        /\ \/ d_ret = Fallback
           \/ /\ Len(d_texts) = 2
              /\ d_ret = extract(d_texts[2])
              /\ ~d_raised

C19_Witness ==
    /\ d_pc = "returned"
    /\ d_ret # Fallback
    /\ d_ret # d_texts[2]
    /\ Len(d_texts[2]) = 3
    /\ Len(d_warnings) = 1

\* the refinement prompt with every summary is within the budget
AllFitRefine(graph) ==
    RefineFixedLen + SerializedLen(d_summaries, 1..Len(d_summaries))
        + TextLen(graph) <= claude_max_length

\* C20: one call of generate_threat_model_diagram gives the generation
\* client at most two prompts, each after the text for the one before has
\* come back: first the draft prompt, then the refinement prompt; the
\* refinement prompt is given only when the draft passed the test, and it
\* holds that draft and the summaries (all of them when they fit the budget,
\* a non-empty sample of them otherwise).
C20_AtMostTwoCalls ==
    /\ Len(d_calls) <= 2
    /\ Len(d_texts) <= Len(d_calls)
    /\ Len(d_calls) <= Len(d_texts) + 1
    /\ Len(d_calls) >= 1 => d_calls[1].fn = "make"
    /\ Len(d_calls) = 2 =>
          LET draft == extract(d_texts[1])
          IN  /\ d_calls[2].fn = "refine"
              /\ HasAllElements(draft)
              /\ d_calls[2].graph = draft
              /\ d_calls[2].sample # {}
              /\ d_calls[2].sample \subseteq 1..Len(d_summaries)
              /\ AllFitRefine(draft) =>
                    d_calls[2].sample = 1..Len(d_summaries)

C20_Witness ==
    /\ d_pc = "refined"
    /\ Len(d_calls) = 2
    /\ Len(d_summaries) = 2
    /\ d_calls[1].sample = {1, 2}
    /\ d_calls[2].sample = {1}
    /\ d_calls[2].graph # d_texts[1]

\* the refinement prompt holds the draft and every summary
C20_WitnessAllSummaries ==
    /\ d_pc = "refined"
    /\ Len(d_summaries) = 2
    /\ d_calls[2].sample = {1, 2}
    /\ d_calls[2].graph # <<>>

(***************************************************************************)
(* Claims about bedrock_generate.                                          *)
(***************************************************************************)
AllThrottled == \A i \in 1..Len(outcomes) : outcomes[i] = "throttled"
NonRecoverable == {"malformed", "client_error", "exception"}

SameEntry(m1, m2, k) ==
    /\ Has(m1, k) <=> Has(m2, k)
    /\ Has(m1, k) => m1[k] = m2[k]

\* the persisted cache holds for p exactly what it held when the run started
EntryUntouched(p) ==
    /\ SameEntry(cacheFile.hashes, startCache.hashes, p)
    /\ SameEntry(cacheFile.summaries, startCache.summaries, p)

RegularIn(tree) == {p \in Paths : isfile(tree, p)}
Dispatched == Range(filtered_files)
\* positions at which compute_cache has returned and the cache file is
\* still the one the run started with
Hashed == {"hashed", "pool", "write"}

\* C1: when the documentation generation for a changed file k yields no
\* result, the run completes and the cache persisted at its end holds for k
\* the hash it held before the run (or none).
C1_GenerationFailureIsolated ==
    pc = "done" =>
        \A k \in Paths :
            log[k].docFailed =>
                SameEntry(cacheFile.hashes, startCache.hashes, k)

TwoRunsNoChange == runs >= 2 /\ startFs = prevFs

\* every file is classified unchanged, no generation call is made, and the
\* cache written is the cache the run started from
SecondRunIsNoOp ==
    /\ pc \in Hashed \cup {"done"} => changed_files = <<>>
    /\ \A p \in Paths : log[p].docCalls = 0 /\ log[p].sumCalls = 0
    /\ pc = "done" => cacheFile = startCache

VisibleChange(old, new) ==
    IF Len(old) <= max_size /\ Len(new) <= max_size
    THEN old # new
    ELSE /\ Len(old) > max_size
         /\ Len(new) > max_size
         /\ \/ Len(old) # Len(new)
            \/ SubSeq(old, 1, sample_size) # SubSeq(new, 1, sample_size)
            \/ SubSeq(old, Len(old) - sample_size + 1, Len(old))
                 # SubSeq(new, Len(new) - sample_size + 1, Len(new))

\* C4 as stated: a regular file with a recorded hash is classified changed,
\* with a different hash, exactly when its content differs from the content
\* recorded.
C4_EveryChangeDetected ==
    pc \in Hashed =>
        \A p \in Dispatched :
            (isfile(fs, p) /\ Has(startCache.hashes, p)) =>
                IF fs[p].content # recorded[p]
                THEN /\ new_cache.hashes[p] # startCache.hashes[p]
                     /\ p \in Range(changed_files)
                ELSE /\ new_cache.hashes[p] = startCache.hashes[p]
                     /\ p \notin Range(changed_files)

\* C4, amended: a regular file with a recorded hash whose content is the
\* one recorded gets the same hash and is not classified changed; one whose
\* content differs gets a different hash and is classified changed when
\* both contents are at most 10 MiB, or both are larger and differ in length
\* or within the first or last 64 KiB.
C4_ChangeDetection ==
    pc \in Hashed =>
        \A p \in Dispatched :
            (isfile(fs, p) /\ Has(startCache.hashes, p)) =>
                /\ VisibleChange(recorded[p], fs[p].content) =>
                      /\ new_cache.hashes[p] # startCache.hashes[p]
                      /\ p \in Range(changed_files)
                /\ fs[p].content = recorded[p] =>
                      /\ new_cache.hashes[p] = startCache.hashes[p]
                      /\ p \notin Range(changed_files)

C4_Witness ==
    /\ pc = "hashed"
    /\ \E p \in Dispatched :
          /\ isfile(fs, p)
          /\ Has(startCache.hashes, p)
          /\ Len(recorded[p]) > max_size
          /\ Len(fs[p].content) > Len(recorded[p])
          /\ p \in Range(changed_files)
    /\ \E q \in Dispatched :
          /\ isfile(fs, q)
          /\ Has(startCache.hashes, q)
          /\ q \notin Range(changed_files)

\* the files whose state differs between the starts of the two runs
Altered == {p \in Paths : startFs[p] # prevFs[p]}

\* the second run makes one documentation call, for k; the persisted
\* entries of the other files are those of the first run and k's hash entry
\* is the hash of its new content
OnlyRegenerated(k) ==
    /\ \A p \in Paths : log[p].docCalls = (IF p = k THEN 1 ELSE 0)
    /\ \A p \in Paths \ {k} : EntryUntouched(p)
    /\ Has(cacheFile.hashes, k)
    /\ cacheFile.hashes[k] = compute_file_hash(startFs[k].content)
    /\ ~SameEntry(cacheFile.hashes, startCache.hashes, k)

C9_MergeAfterAllWorkers ==
    [][(pc = "pool" /\ cache' # cache)
          => \A p \in Paths : task[p] \notin {"queued", "running"}]_vars

\* C9, amended: the in-memory cache is merged one collected result at a
\* time, possibly while other tasks are queued or running, but the entries
\* of a path never change while that path's own task is queued or running.
C9_MergeAfterOwnTask ==
    [][\A p \in Paths :
          task[p] \in {"queued", "running"} =>
              /\ SameEntry(cache.hashes, cache'.hashes, p)
              /\ SameEntry(cache.summaries, cache'.summaries, p)]_vars

C9_Witness ==
    /\ pc = "pool"
    /\ \E p, q \in Paths :
          /\ task[p] = "collected"
          /\ result[p].success
          /\ Has(cache.hashes, p)
          /\ ~Has(startCache.hashes, p)
          /\ task[q] = "running"

\* C10: a step in which a worker completes process_file leaves cache,
\* new_cache, changed_files, summaries and doc_contents as they were; cache,
\* summaries and doc_contents change only in steps of the coordinating
\* thread (a step that moves it or collects one result).
C10_WorkersLeaveSharedState ==
    [][/\ (\E p \in Paths : task[p] = "running" /\ task'[p] = "finished")
            => UNCHANGED <<cache, new_cache, changed_files, summaries,
                           doc_contents>>
       /\ (cache' # cache \/ summaries' # summaries
              \/ doc_contents' # doc_contents)
            => (pc' # pc \/ pbar' = pbar + 1)]_vars

C10_Witness ==
    /\ pc = "pool"
    /\ \E p \in Paths :
          /\ task[p] = "finished"
          /\ result[p].success
          /\ result[p].summary # Empty
          /\ ~Has(cache.hashes, p)
          /\ ~Has(cache.summaries, p)
          /\ Has(docs, basename(p))

\* every dispatched task has been collected, every successful result is
\* merged, and no key of the in-memory cache is stale
AllCollectedMergedPruned ==
    /\ \A p \in Dispatched : task[p] = "collected"
    /\ \A p \in Dispatched :
          result[p].success =>
              /\ Has(cache.hashes, p)
              /\ cache.hashes[p] = new_cache.hashes[p]
              /\ result[p].summary # Empty =>
                    (Has(cache.summaries, p)
                        /\ cache.summaries[p] = result[p].summary)
    /\ DOMAIN cache.hashes \subseteq DOMAIN new_cache.hashes

C12_CacheFileNeverPartial ==
    pc = "interrupted" =>
        \/ cacheFile = startCache
        \/ cacheFile = JsonFile(cache)

\* C13: in the cache persisted at the end of a run, every key of hashes and
\* every key of summaries is a path the run discovered and found to be a
\* regular file.
C13_NoStaleKeys ==
    (pc = "done" /\ runs > 0) =>
        \A k \in DOMAIN cacheFile.hashes \cup DOMAIN cacheFile.summaries :
            k \in Dispatched /\ isfile(startFs, k)

C13_Witness ==
    /\ pc = "done"
    /\ runs = 2
    /\ \E p \in Dispatched :
          /\ Has(startCache.hashes, p)
          /\ Has(startCache.summaries, p)
          /\ ~isfile(startFs, p)
          /\ ~Has(cacheFile.hashes, p)
          /\ ~Has(cacheFile.summaries, p)
    /\ DOMAIN cacheFile.hashes # {}

\* C14: no two tasks of one run open the same documentation file: the
\* documentation files opened, for writing or for reading, by the tasks of
\* two different source files are different files.
C14_OwnDocumentationFile ==
    \A p, q \in Paths :
        (/\ p # q
         /\ log[p].docAccess # "none"
         /\ log[q].docAccess # "none")
            => doc_path(p) # doc_path(q)

\* C16: every task dispatched is in the end collected, once, and a run that
\* has reached the pool goes on to write the cache file, whatever the tasks
\* returned (unless the process is interrupted).
C16_RunReachesCacheWrite ==
    /\ \A p \in Paths :
          (task[p] = "queued") ~> (task[p] = "collected" \/ pc = "interrupted")
    /\ (pc = "pool") ~> (pc \in {"writing", "interrupted"})
    /\ [][\A p \in Paths :
             task[p] = "collected" =>
                 (task'[p] = "collected" \/ pc' = "walked")]_vars

\* the tasks whose result the coordinator has taken
Collected == {p \in Paths : task[p] = "collected"}

\* C17: the progress counter of a run never decreases; it grows by exactly
\* one in each step that collects a result, successful or failed, and in no
\* other step; it never exceeds the number of dispatched tasks and equals
\* that number once the pool is drained.
C17_ProgressCounter ==
    /\ [](pbar = Cardinality(Collected))
    /\ [](pc \in {"pool", "write", "writing", "summary", "diagram", "done",
              "crashed"}
            => pbar <= Len(filtered_files))
    /\ [](pc \in {"write", "writing", "summary", "diagram", "done"}
            => pbar = Len(filtered_files))
    /\ [][pc' # "walked" =>
             /\ pbar' >= pbar
             /\ (pbar' # pbar <=> Collected' # Collected)
             /\ (\E p \in Paths : task[p] = "finished" /\ task'[p] = "collected")
                   => pbar' = pbar + 1]_vars

C17_Witness ==
    /\ pc = "done"
    /\ pbar = 3
    /\ \E p, q \in Dispatched : result[p].success /\ ~result[q].success

(***************************************************************************)
(* Claims about the pool.                                                  *)
(***************************************************************************)
Queued == {t \in DOMAIN task : task[t] = "queued"}
Finished == {t \in DOMAIN task : task[t] = "finished"}

\* C15: at every moment at most 8 tasks are running; a task that is
\* submitted while 8 tasks are running stays in the queue, and a queued task
\* starts only in a step before which fewer than 8 tasks are running, so
\* that the 9th and every later task starts after a running task has
\* finished.
C15_BoundedParallelism ==
    /\ [](Cardinality(Running) <= max_workers)
    /\ [](Cardinality(Running) + Cardinality(Finished) > max_workers
            => Finished # {})
    /\ [][\A t \in DOMAIN task :
             (task[t] = "queued" /\ task'[t] = "running")
                 => Cardinality(Running) < max_workers]_vars

\* eight tasks run, one has finished and let the ninth start, the tenth waits
C15_Witness ==
    /\ Cardinality(Running) = max_workers
    /\ Cardinality(Finished) = 1
    /\ Cardinality(Queued) = NumTasks - max_workers - 1
    /\ Queued # {}

(***************************************************************************)
(* Claims about the sampling loop of make_threat_model_prompt and of       *)
(* refine_threat_model_prompt.                                             *)
(***************************************************************************)
AllSummaries == 1..Len(d_summaries)

\* the function whose loop ran last: the draft prompt before any call
LoopFn == IF Len(d_calls) = 0 \/ d_pc = "make" THEN "make" ELSE "refine"

\* the prompt of the running function that holds every summary is over the
\* budget
Oversized ==
    build_prompt(LoopFn, d_summaries, AllSummaries, diagram).len
        > claude_max_length

\* the loop was left by the ValueError of random.sample
LoopRaised == d_pc = "returned" /\ d_raised /\ d_sample_size < 0

\* the loop is running
InLoop == d_pc \in {"make", "refine"}

\* C21: the sampling loop always terminates.  When it returns a prompt, the
\* prompt holds a sample of at least one summary and its length is within
\* the budget.  It may also end by raising, with no prompt: that happens only
\* with no summaries at all or when some single summary, with the fixed text
\* (and the draft), is over the budget.
C21_LoopEnds ==
    /\ [](InLoop => d_sample_size >= -1 /\ d_sample_size <= Len(d_summaries))
    /\ [](\A i \in 1..Len(d_calls) :
             /\ Cardinality(d_calls[i].sample) >= 1
             /\ d_calls[i].len <= claude_max_length)
    /\ [](d_pc \in {"draft", "refined"} => d_sample_size >= 1)
    /\ [](LoopRaised =>
             \/ d_summaries = <<>>
             \/ \E i \in AllSummaries :
                    build_prompt(LoopFn, d_summaries, {i}, diagram).len
                        > claude_max_length)
    /\ (InLoop ~> ~InLoop)

\* the summaries are over the budget and the loop returned a sample of them
C21_Witness ==
    /\ d_pc = "draft"
    /\ d_summaries = <<12, 12, 12>>
    /\ d_sample_size = 1
    /\ prompt.len <= claude_max_length

\* C21 as stated: with summaries over the budget the loop ends with a sample
\* of at least one summary
C21_SamplingConverges ==
    (d_pc = "returned" /\ Len(d_calls) = 0 /\ Oversized) => d_sample_size >= 1

\* a pass of the loop that draws a sample
LoopPass == InLoop /\ d_pc' = d_pc /\ serialized_summary' # serialized_summary

\* the loop returns its prompt
LoopReturns == InLoop /\ d_pc' \in {"draft", "refined"}

\* C22: the sample size tried by the loop starts at the number of summaries
\* and goes down by exactly one per pass; when the prompt returned holds
\* fewer summaries than there are, one warning is emitted, which states the
\* rounded percentage 100 * used / total; when it holds all of them, none.
C22_DegradationWarning ==
    /\ [][(~InLoop /\ InLoop') => d_sample_size' = Len(d_summaries')]_vars
    /\ [][LoopPass =>
             /\ Cardinality(serialized_summary'.sample) = d_sample_size
             /\ d_sample_size' = d_sample_size - 1]_vars
    /\ [][LoopReturns =>
             LET used == Cardinality(prompt.sample)
                 total == Len(d_summaries)
             IN  /\ d_sample_size' = used
                 /\ used < total =>
                       /\ d_warnings' = Append(d_warnings,
                              [used |-> used, total |-> total,
                               percent |-> round(100 * used, total)])
                       /\ 100 * used - total
                             < total * d_warnings'[Len(d_warnings')].percent
                       /\ total * d_warnings'[Len(d_warnings')].percent
                             < 100 * used + total
                 /\ used >= total => d_warnings' = d_warnings]_vars
    /\ [][~LoopReturns => d_warnings' = d_warnings]_vars

\* two of three summaries over the budget: the prompt held one of them and the
\* warning says 33 percent
C22_Witness ==
    /\ d_pc = "draft"
    /\ d_summaries = <<12, 12, 12>>
    /\ d_warnings = <<[used |-> 1, total |-> 3, percent |-> 33]>>

(***************************************************************************)
(* Claims about the cache file a run finds.                                *)
(***************************************************************************)
\* the cache file found by the run is missing, is not JSON, or has no hashes
FullRunStart == startCache.kind # "json" \/ DOMAIN startCache.hashes = {}

\* no result of the run has been merged yet
NothingCollected == \A p \in DOMAIN task : task[p] # "collected"

C25_WitnessOldSummaries ==
    /\ startCache.kind = "json"
    /\ startCache.summaries # EmptyMap
    /\ pc = "pool"
    /\ \E p \in Paths : log[p].ran /\ p \in Range(changed_files)

ArtifactsWritten ==
    /\ pc = "done"
    /\ summaryFile = SummaryText(summaries)
    /\ diagramFile \in DiagramResults(summaries)

\* C26: a run that has started ends (unless the process is interrupted),
\* and at its end the summary file and the diagram file are on disk,
\* written by this run (unless the write of the file itself raised),
\* whatever the tasks and the generation calls did.
C26_RunCompletes ==
    /\ (pc = "walked") ~> (pc \in {"done", "interrupted"})
    /\ [](pc = "done" /\ runs > 0 =>
            /\ "summary" \notin outRaised
                  => summaryFile = SummaryText(summaries)
            /\ "diagram" \notin outRaised
                  => diagramFile \in DiagramResults(summaries))

\* What holds of every run: it ends, is interrupted, or is left by the
\* KeyError of line 792, which comes with a result that says success for a
\* path that has no new hash; a run that ends has written its two files
\* unless their own write raised.
RunCompletesUnlessKeyError ==
    /\ (pc = "walked") ~> (pc \in {"done", "interrupted", "crashed"})
    /\ [](pc = "crashed" =>
            \E q \in Paths : /\ task[q] = "collected"
                             /\ result[q].success
                             /\ ~Has(new_cache.hashes, q))
    /\ [](pc = "done" /\ runs > 0 =>
            /\ "summary" \notin outRaised
                  => summaryFile = SummaryText(summaries)
            /\ "diagram" \notin outRaised
                  => diagramFile \in DiagramResults(summaries))

\* a run with a failed task ends with both files written, the diagram being
\* the template
FailedRunCompletes ==
    /\ ArtifactsWritten
    /\ runs = 1
    /\ \E p \in Paths : task[p] = "collected" /\ ~result[p].success
    /\ Len(summaries) = 2
    /\ diagramFile = Fallback

WithSummary ==
    {p \in Paths : /\ task[p] = "collected"
                   /\ result[p].success
                   /\ result[p].summary # Empty}

\* the pool is drained and the run goes on
PoolDrained == pc \in {"write", "writing", "summary", "diagram", "done"}

\* C28: the task of a file that is not in the changed set, whose
\* documentation file exists and whose path has a cached summary, makes no
\* generation call and, unless reading a file raises, returns the cached
\* summary.  Once the pool is drained, and so when
\* generate_threat_model_diagram is called, the list of summaries holds
\* exactly one entry for each task that returned success with a non-empty
\* summary, the file changed or not, and no other entry.
C28_SummaryReuse ==
    /\ [][\A p \in Paths :
             (/\ task[p] = "running"
              /\ task'[p] = "finished"
              /\ p \notin Range(changed_files)
              /\ Has(docs, doc_path(p))
              /\ Has(cache.summaries, p))
                 => /\ log'[p].docCalls = 0
                    /\ log'[p].sumCalls = 0
                    /\ \/ /\ result'[p].success
                          /\ result'[p].summary = cache.summaries[p]
                          /\ result'[p].summary # Empty
                          /\ result'[p].doc = docs[doc_path(p)]
                       \/ /\ ~result'[p].success
                          /\ \/ log'[p].readRaised
                             \/ log'[p].docAccess = "read"]_vars
    /\ [](PoolDrained /\ runs > 0 =>
            /\ Len(summaries) = Cardinality(WithSummary)
            /\ \A p \in WithSummary :
                  \E i \in 1..Len(summaries) :
                      summaries[i] = <<file_path(p), result[p].summary>>)

\* the second run is about to call generate_threat_model_diagram with the
\* cached summary of an unchanged file and the new summary of a changed one
C28_Witness ==
    /\ pc = "diagram"
    /\ runs = 2
    /\ Len(summaries) >= 2
    /\ \E p, q \in WithSummary :
          /\ log[p].reused
          /\ log[p].docCalls = 0
          /\ q \in Range(changed_files)
          /\ log[q].sumCalls = 1

(***************************************************************************)
(* Claims about the waits of bedrock_generate.                             *)
(***************************************************************************)
\* the call goes to sleep
Sleeps == g_pc' = "sleep" /\ g_pc # "sleep"

\* C29: bedrock_generate sleeps only after a rate-limit error on an attempt
\* k < 10, for a time between 0.9 * 2^k and 1.1 * 2^k seconds; after a
\* success, another error or the 11th attempt it does not sleep; so one
\* call sleeps at most 10 times and less than 1.1 * (2^10 - 1) seconds in
\* all.  Times are in milliseconds.
C29_BackoffSchedule ==
    /\ [][Sleeps =>
             /\ g_pc = "invoke"
             /\ outcomes' = Append(outcomes, "throttled")
             /\ attempt < 10
             /\ 900 * Pow(2, attempt) <= delay'
             /\ delay' <= 1100 * Pow(2, attempt)
             /\ waited' = waited + delay']_vars
    /\ [][(g_pc = "invoke" /\ g_pc' # "sleep") =>
             /\ waited' = waited
             /\ \/ outcomes' # Append(outcomes, "throttled")
                \/ attempt = 10]_vars
    /\ [][g_pc = "sleep" => waited' = waited]_vars
    /\ [](waited <= 1100 * (Pow(2, 10) - 1))
    /\ [](waited >= 900 * (Pow(2, attempt) - 1))
    /\ [](waited <= 1100 * (Pow(2, attempt + 1) - 1))

\* ten rate-limit errors, each followed by a wait, and an eleventh after
\* which the call returns
C29_Witness ==
    /\ g_pc = "returned"
    /\ attempt = 10
    /\ Len(outcomes) = 11
    /\ outcomes[11] = "throttled"
    /\ delay >= 900 * Pow(2, 9)
    /\ waited >= 900 * (Pow(2, 10) - 1)

(***************************************************************************)
(* Claims about the persisted cache over several runs.                     *)
(***************************************************************************)
\* C30: starting from a missing cache file (or one that holds an empty
\* cache), in the cache file as written by any run every path that has a
\* summary has a hash; the same holds of the cache in memory when it is
\* written.
C30_SummaryHasHash ==
    /\ DOMAIN cacheFile.summaries \subseteq DOMAIN cacheFile.hashes
    /\ pc \in {"write", "writing", "summary", "diagram", "done"}
          => DOMAIN cache.summaries \subseteq DOMAIN cache.hashes

\* the second run has written a cache from which it pruned a path that had
\* a summary, and which holds summaries
C30_Witness ==
    /\ pc = "done"
    /\ runs = 2
    /\ cacheFile.kind = "json"
    /\ cacheFile.summaries # EmptyMap
    /\ \E p \in DOMAIN startCache.summaries : p \notin DOMAIN cacheFile.hashes

(***************************************************************************)
(* Claims about the summaries of the persisted cache.                      *)
(***************************************************************************)
\* summary s was written for a documentation of a content whose hash is h;
\* a summary written for an empty documentation names no content
GeneratedFrom(s, h) ==
    s[2] # Empty => compute_file_hash(s[2][2]) = h

\* the paths that have a hash and a summary in record c
WithBoth(c) == DOMAIN c.hashes \cap DOMAIN c.summaries

\* C31: in the cache file, the summary of every path that has a hash and a
\* summary was generated from a content of the file that has that hash: no
\* summary of an older content stays beside the hash of a newer one.
C31_SummaryMatchesHash ==
    \A p \in WithBoth(cacheFile) :
        GeneratedFrom(cacheFile.summaries[p], cacheFile.hashes[p])

\* What holds of every merge: a result with a non-empty summary leaves a
\* summary that matches the new hash; a summary that does not match the
\* hash beside it is left only by a successful result for a changed file
\* whose summary is empty (generate_summary got no text).
StaleSummaryOnlyAfterEmptySummary ==
    [][\A p \in Paths :
          (/\ pc = "pool"
           /\ task[p] = "finished"
           /\ task'[p] = "collected"
           /\ p \in WithBoth(cache')
           /\ ~GeneratedFrom(cache'.summaries[p], cache'.hashes[p]))
              => /\ result[p].success
                 /\ result[p].summary = Empty
                 /\ log[p].sumCalls = 1
                 /\ p \in Range(changed_files)
                 /\ cache'.summaries[p] = cache.summaries[p]
                 /\ cache'.hashes[p] # cache.hashes[p]]_vars


\* ------------------------------------------------------------------------
\* Claims about the order in which the results are collected.

\* lines 783-796 applied to the results of the paths ps, one after the
\* other, in the order of ps
RECURSIVE merge_in_order(_, _)
merge_in_order(c, ps) ==
    IF ps = <<>> THEN c
    ELSE LET r == result[Head(ps)]
         IN  merge_in_order(IF r.success THEN merge(c, r) ELSE c, Tail(ps))

\* the paths collected so far, in the order of their submission
CollectedInSubmissionOrder ==
    SelectSeq(filtered_files, LAMBDA p : task[p] = "collected")

\* the cache that lines 770-802 build when the results are collected in the
\* order of submission
SubmissionOrderCache ==
    prune(merge_in_order(load_cache(startCache), filtered_files))

\* the order in which the successful results were collected
CollectionOrder == [i \in 1..Len(doc_contents) |-> doc_contents[i][1]]

\* the successful results in the order of their submission
SuccessOrder ==
    LET ok == SelectSeq(filtered_files, LAMBDA p : result[p].success)
    IN  [i \in 1..Len(ok) |-> file_path(ok[i])]

\* C32: for the files, the previous cache and the results of a run, the
\* hashes and the summaries written to the cache file are those that
\* collecting the results in the order of submission gives, whatever
\* the order in which the tasks completed and were collected; while the
\* results are collected, the cache depends on the set of results collected
\* and not on their order.
C32_MergeOrderIndependent ==
    /\ pc = "pool" =>
          cache = merge_in_order(load_cache(startCache),
                                 CollectedInSubmissionOrder)
    /\ pc \in {"write", "writing"} => cache = SubmissionOrderCache
    /\ pc \in {"summary", "diagram", "done"} =>
          cacheFile = JsonFile(SubmissionOrderCache)

\* a cache was written after the results of three files were collected in
\* an order that is not the order of submission, and the run changed a hash
\* and a summary
C32_CollectedOutOfOrder ==
    /\ pc = "summary"
    /\ Len(doc_contents) = 3
    /\ CollectionOrder # SuccessOrder
    /\ runs = 2
    /\ startCache.kind = "json"
    /\ cacheFile.hashes # startCache.hashes
    /\ cacheFile.summaries # startCache.summaries


\* ------------------------------------------------------------------------
\* Claims about the sampling loop that finds no prompt.

\* no sample of at least one summary gives the function fn a prompt within
\* the budget: there is no summary, or each one alone is over it
NoSampleFits(fn) ==
    \A S \in SUBSET AllSummaries :
        S # {} => build_prompt(fn, d_summaries, S, diagram).len
                      > claude_max_length

\* the calls of bedrock_generate made before the loop of the function fn
CallsBefore(fn) == IF fn = "make" THEN 0 ELSE 1

\* C33: when no sample of at least one summary gives a prompt within the
\* budget, the sampling loop makes no generation call for its prompt, leaves
\* only by raising, with a sample size below zero, and does leave:
\* generate_threat_model_diagram then returns the template.
C33_NoPromptRaises ==
    /\ [][(InLoop /\ NoSampleFits(d_pc)) =>
             /\ d_calls' = d_calls
             /\ d_texts' = d_texts
             /\ d_sample_size' >= -1
             /\ d_pc' # d_pc =>
                   /\ d_sample_size = -1
                   /\ LoopRaised'
                   /\ d_ret' = Fallback]_vars
    /\ \A fn \in {"make", "refine"} :
          (d_pc = fn /\ NoSampleFits(fn)) ~>
              (/\ LoopRaised
               /\ d_ret = Fallback
               /\ Len(d_calls) = CallsBefore(fn)
               /\ Len(d_texts) = CallsBefore(fn))

\* one summary that is over the budget by itself: the loop raised, no call
\* was made and the template is returned
C33_Witness ==
    /\ d_summaries = <<30>>
    /\ LoopRaised
    /\ d_sample_size = -1
    /\ d_calls = <<>>
    /\ d_texts = <<>>
    /\ d_ret = Fallback

\* no summary at all: the same end
C33_EmptyList ==
    /\ d_summaries = <<>>
    /\ LoopRaised
    /\ d_calls = <<>>
    /\ d_ret = Fallback

\* the draft was drawn, and with it no summary fits the refinement prompt:
\* the loop of refine_threat_model_prompt raised after the one call
C33_RefineRaised ==
    /\ d_summaries # <<>>
    /\ LoopRaised
    /\ Len(d_calls) = 1
    /\ Len(d_texts) = 1
    /\ NoSampleFits("refine")
    /\ d_ret = Fallback

====
